---- MODULE Spec2Model ----
(***************************************************************************)
(* Discrete-event M/D/1 queue simulation of                                *)
(* src/Class_Prep/queueMD1_session3.py: Event, Schedule (a heapq priority  *)
(* queue with a clock), Queue (single server), Airport (arrival process)   *)
(* and run_simulation (the driver loop).                                   *)
(*                                                                         *)
(* Time is counted in integer ticks, TicksPerUnit ticks to one time unit,  *)
(* so that 1.0 / service_rate is ServiceTime(service_rate) ticks.          *)
(***************************************************************************)
EXTENDS Integers, Sequences, FiniteSets, TLC

\* ------------------------------------------------------------------ bounds
TicksPerUnit == 2
MaxRate == 2
MaxTime == 2
MaxInterval == 1
MaxDraw == 2
MaxHorizon == 3
MaxEvents == 3
MaxSteps == 5
MaxArrivals == 2

\* float('inf'), the answer of next_event_time on an empty schedule
inf == 1000000

Rates == -1..MaxRate
Times == 0..MaxTime
Intervals == -1..MaxInterval
Horizons == -1..MaxHorizon

VARIABLES
    now,                   \* Schedule.now
    priority_queue,        \* Schedule.priority_queue: the heapq list of Events
    queue_length,          \* Queue.queue_length (customers waiting)
    in_service,            \* Queue.in_service
    service_rate,          \* Queue.service_rate
    time_history,          \* Queue.time_history
    queue_length_history,  \* Queue.queue_length_history
    arrival_rate,          \* Airport.arrival_rate
    run_until,             \* run_simulation's run_until
    pc,                    \* position of the caller: "api" for a direct user of
                           \* Schedule and Queue, or the driver's position
    error,                 \* the exception that ended the run, or "none"
    inserted,              \* history: every Event constructed, in creation order
    executed,              \* history: every Event run, in execution order
    service_start,         \* history: schedule.now at the last service start
    arrivals,              \* history: number of Queue.arrival calls so far
    draws,                 \* history: the inter-arrival times drawn so far
    push_after_pop,        \* history: an Event was pushed after one had run
    lastCall               \* history: the operation performed by the last step

vars == <<now, priority_queue, queue_length, in_service, service_rate,
          time_history, queue_length_history, arrival_rate, run_until, pc,
          error, inserted, executed, service_start, arrivals, draws,
          push_after_pop, lastCall>>

\* The objects reachable from a handler, as one record.
World ==
    [now |-> now, priority_queue |-> priority_queue,
     queue_length |-> queue_length, in_service |-> in_service,
     service_rate |-> service_rate, time_history |-> time_history,
     queue_length_history |-> queue_length_history,
     arrival_rate |-> arrival_rate, error |-> error,
     inserted |-> inserted, executed |-> executed,
     service_start |-> service_start, arrivals |-> arrivals,
     draws |-> draws, push_after_pop |-> push_after_pop]

Store(w) ==
    /\ now' = w.now
    /\ priority_queue' = w.priority_queue
    /\ queue_length' = w.queue_length
    /\ in_service' = w.in_service
    /\ service_rate' = w.service_rate
    /\ time_history' = w.time_history
    /\ queue_length_history' = w.queue_length_history
    /\ arrival_rate' = w.arrival_rate
    /\ error' = w.error
    /\ inserted' = w.inserted
    /\ executed' = w.executed
    /\ service_start' = w.service_start
    /\ arrivals' = w.arrivals
    /\ draws' = w.draws
    /\ push_after_pop' = w.push_after_pop

\* ------------------------------------------------------------------ Event
\* Event.__init__; id is the object's identity (its creation number).
Event(timestamp, function, id) ==
    [timestamp |-> timestamp, function |-> function, id |-> id]

Lt_reversed(self, other) == self.timestamp > other.timestamp

\* Event.__lt__
Lt(self, other) == self.timestamp < other.timestamp

\* ------------------------------------------------------------------ heapq
RECURSIVE siftdown(_, _, _, _)
\* heapq._siftdown: move newitem from pos toward the root (position 1) while
\* it is less than its parent.
siftdown(heap, startpos, pos, newitem) ==
    IF pos > startpos
    THEN LET parentpos == pos \div 2
             parent == heap[parentpos]
         IN IF Lt(newitem, parent)
            THEN siftdown([heap EXCEPT ![pos] = parent], startpos, parentpos, newitem)
            ELSE [heap EXCEPT ![pos] = newitem]
    ELSE [heap EXCEPT ![pos] = newitem]

RECURSIVE siftup_loop(_, _, _)
\* heapq._siftup: bubble the smaller child up until a leaf, then sift the
\* displaced item down from there.
siftup_loop(heap, pos, newitem) ==
    LET endpos == Len(heap)
        childpos == 2 * pos
        rightpos == childpos + 1
    IN IF childpos <= endpos
       THEN LET c == IF rightpos <= endpos /\ ~Lt(heap[childpos], heap[rightpos])
                     THEN rightpos ELSE childpos
            IN siftup_loop([heap EXCEPT ![pos] = heap[c]], c, newitem)
       ELSE siftdown([heap EXCEPT ![pos] = newitem], 1, pos, newitem)

\* heapq.heappush
heappush(heap, item) ==
    siftdown(Append(heap, item), 1, Len(heap) + 1, item)

\* heapq.heappop on a non-empty heap: the popped item and the heap left
heappop(heap) ==
    LET lastelt == heap[Len(heap)]
        rest == SubSeq(heap, 1, Len(heap) - 1)
    IN IF rest # <<>>
       THEN [item |-> rest[1], heap |-> siftup_loop(rest, 1, lastelt)]
       ELSE [item |-> lastelt, heap |-> <<>>]

\* --------------------------------------------------------------- Schedule
add_event_at_moves_clock(w, timestamp, function) ==
    IF w.error # "none" THEN w
    ELSE LET ev == Event(timestamp, function, Len(w.inserted) + 1)
         IN [w EXCEPT !.priority_queue = heappush(w.priority_queue, ev),
                      !.inserted = Append(w.inserted, ev),
                      !.now = timestamp,
                      !.push_after_pop = w.push_after_pop \/ w.executed # <<>>]

\* Schedule.add_event_at
add_event_at(w, timestamp, function) ==
    IF w.error # "none" THEN w
    ELSE LET ev == Event(timestamp, function, Len(w.inserted) + 1)
         IN [w EXCEPT !.priority_queue = heappush(w.priority_queue, ev),
                      !.inserted = Append(w.inserted, ev),
                      !.push_after_pop = w.push_after_pop \/ w.executed # <<>>]

\* Schedule.add_event_after
add_event_after(w, interval, function) ==
    add_event_at(w, w.now + interval, function)

\* Schedule.next_event_time
next_event_time(w) ==
    IF w.priority_queue # <<>> THEN w.priority_queue[1].timestamp ELSE inf

\* ------------------------------------------------------------------ Queue
ServiceTime_negated(rate) ==
    IF rate > 0 THEN -(TicksPerUnit \div rate) ELSE TicksPerUnit \div (-rate)

\* 1.0 / self.service_rate, in ticks (service_rate # 0)
ServiceTime(rate) ==
    IF rate > 0 THEN TicksPerUnit \div rate ELSE -(TicksPerUnit \div (-rate))

record_state_waiting_only(w, time) ==
    [w EXCEPT !.time_history = Append(w.time_history, time),
              !.queue_length_history =
                  Append(w.queue_length_history, w.queue_length)]

\* Queue.record_state
record_state(w, time) ==
    [w EXCEPT !.time_history = Append(w.time_history, time),
              !.queue_length_history =
                  Append(w.queue_length_history, w.queue_length + w.in_service)]

start_service_unrecorded(w) ==
    IF w.error # "none" THEN w
    ELSE IF w.queue_length > 0 /\ w.in_service = 0
    THEN LET w1 == [w EXCEPT !.queue_length = w.queue_length - 1,
                             !.in_service = 1,
                             !.service_start = w.now]
         IN IF w.service_rate = 0
            THEN [w1 EXCEPT !.error = "ZeroDivisionError"]
            ELSE add_event_after(w1, ServiceTime(w.service_rate), "end_service")
    ELSE w

start_service_keeps_waiting(w) ==
    IF w.error # "none" THEN w
    ELSE IF w.queue_length > 0 /\ w.in_service = 0
    THEN LET w1 == [w EXCEPT !.in_service = 1,
                             !.service_start = w.now]
             w2 == record_state(w1, w1.now)
         IN IF w.service_rate = 0
            THEN [w2 EXCEPT !.error = "ZeroDivisionError"]
            ELSE add_event_after(w2, ServiceTime(w.service_rate), "end_service")
    ELSE w

start_service_ignores_busy(w) ==
    IF w.error # "none" THEN w
    ELSE IF w.queue_length > 0
    THEN LET w1 == [w EXCEPT !.queue_length = w.queue_length - 1,
                             !.in_service = 1,
                             !.service_start = w.now]
             w2 == record_state(w1, w1.now)
         IN IF w.service_rate = 0
            THEN [w2 EXCEPT !.error = "ZeroDivisionError"]
            ELSE add_event_after(w2, ServiceTime(w.service_rate), "end_service")
    ELSE w

\* Queue.start_service
start_service(w) ==
    IF w.error # "none" THEN w
    ELSE IF w.queue_length > 0 /\ w.in_service = 0
    THEN LET w1 == [w EXCEPT !.queue_length = w.queue_length - 1,
                             !.in_service = 1,
                             !.service_start = w.now]
             w2 == record_state(w1, w1.now)
         IN IF w.service_rate = 0
            THEN [w2 EXCEPT !.error = "ZeroDivisionError"]
            ELSE add_event_after(w2, ServiceTime(w.service_rate), "end_service")
    ELSE w

arrival_lost_when_busy(w) ==
    IF w.error # "none" THEN w
    ELSE IF w.in_service = 0
    THEN start_service(record_state([w EXCEPT !.queue_length = w.queue_length + 1,
                                              !.arrivals = w.arrivals + 1],
                                    w.now))
    ELSE record_state([w EXCEPT !.arrivals = w.arrivals + 1], w.now)

\* Queue.arrival
arrival(w) ==
    IF w.error # "none" THEN w
    ELSE LET w1 == [w EXCEPT !.queue_length = w.queue_length + 1,
                             !.arrivals = w.arrivals + 1]
             w2 == record_state(w1, w1.now)
         IN IF w2.in_service = 0 THEN start_service(w2) ELSE w2

end_service_no_cascade(w) ==
    IF w.error # "none" THEN w
    ELSE record_state([w EXCEPT !.in_service = 0], w.now)

end_service_stays_busy(w) ==
    IF w.error # "none" THEN w
    ELSE record_state(w, w.now)

\* Queue.end_service
end_service(w) ==
    IF w.error # "none" THEN w
    ELSE LET w1 == [w EXCEPT !.in_service = 0]
             w2 == record_state(w1, w1.now)
         IN IF w2.queue_length > 0 THEN start_service(w2) ELSE w2

\* ---------------------------------------------------------------- Airport
\* The values random.expovariate(lambd) can return, in ticks: from 0 up for
\* a positive rate, from 0 down for a negative one (lambd = 0 raises).
Draws(lambd) ==
    IF lambd > 0 THEN 0..MaxDraw
    ELSE IF lambd < 0 THEN (-MaxDraw)..0
    ELSE {0}

\* random.expovariate(self.arrival_rate) returning inter_arrival_time
expovariate(w, inter_arrival_time) ==
    IF w.arrival_rate = 0 THEN [w EXCEPT !.error = "ZeroDivisionError"]
    ELSE [w EXCEPT !.draws = Append(w.draws, inter_arrival_time)]

schedule_initial_arrival_at_once(w, inter_arrival_time) ==
    add_event_after(expovariate(w, inter_arrival_time), 0, "handle_arrival")

\* Airport.schedule_initial_arrival, with the drawn inter-arrival time
schedule_initial_arrival(w, inter_arrival_time) ==
    add_event_after(expovariate(w, inter_arrival_time), inter_arrival_time,
                    "handle_arrival")

handle_arrival_once(w, inter_arrival_time) ==
    IF w.error # "none" THEN w
    ELSE arrival(w)

\* Airport.handle_arrival, with the drawn inter-arrival time
handle_arrival(w, inter_arrival_time) ==
    IF w.error # "none" THEN w
    ELSE LET w1 == arrival(w)
         IN IF w1.error # "none" THEN w1
            ELSE add_event_after(expovariate(w1, inter_arrival_time),
                                 inter_arrival_time, "handle_arrival")

\* Event.run: call the event's function with the schedule
run(w, event, draw) ==
    IF event.function = "end_service" THEN end_service(w)
    ELSE IF event.function = "handle_arrival" THEN handle_arrival(w, draw)
    ELSE w

run_next_event_keeps_clock(w, draw) ==
    IF w.priority_queue = <<>> THEN w
    ELSE LET p == heappop(w.priority_queue)
         IN run([w EXCEPT !.priority_queue = p.heap,
                          !.executed = Append(w.executed, p.item)],
                p.item, draw)

\* Schedule.run_next_event
run_next_event(w, draw) ==
    IF w.priority_queue = <<>> THEN w
    ELSE LET p == heappop(w.priority_queue)
             event == p.item
             w1 == [w EXCEPT !.priority_queue = p.heap,
                             !.now = event.timestamp,
                             !.executed = Append(w.executed, event)]
         IN run(w1, event, draw)

\* ----------------------------------------------------------------- driver
LoopCondition_strict(w, horizon) ==
    w.priority_queue # <<>> /\ next_event_time(w) < horizon

LoopCondition_ignores_horizon(w, horizon) ==
    w.priority_queue # <<>>

\* run_simulation's loop condition
LoopCondition(w, horizon) ==
    w.priority_queue # <<>> /\ next_event_time(w) <= horizon

Call(op, arg) == [op |-> op, arg |-> arg]

Failed(w) == IF w.error # "none" THEN "failed" ELSE pc

\* ------------------------------------------- direct use of Schedule, Queue
InitSchedule ==
    /\ now = 0
    /\ priority_queue = <<>>
    /\ queue_length = 0
    /\ in_service = 0
    /\ service_rate \in Rates
    /\ time_history = <<>>
    /\ queue_length_history = <<>>
    /\ arrival_rate = 1
    /\ run_until = 0
    /\ pc = "api"
    /\ error = "none"
    /\ inserted = <<>>
    /\ executed = <<>>
    /\ service_start = 0
    /\ arrivals = 0
    /\ draws = <<>>
    /\ push_after_pop = FALSE
    /\ lastCall = Call("init", 0)

\* schedule.add_event_at(timestamp, noop)
AddEventAt ==
    /\ pc = "api"
    /\ Len(inserted) < MaxEvents
    /\ \E timestamp \in Times :
          /\ Store(add_event_at(World, timestamp, "noop"))
          /\ lastCall' = Call("add_event_at", timestamp)
    /\ UNCHANGED <<run_until, pc>>

\* schedule.add_event_after(interval, noop)
AddEventAfter ==
    /\ pc = "api"
    /\ Len(inserted) < MaxEvents
    /\ \E interval \in Intervals :
          /\ Store(add_event_after(World, interval, "noop"))
          /\ lastCall' = Call("add_event_after", interval)
    /\ UNCHANGED <<run_until, pc>>

\* schedule.next_event_time()
NextEventTime ==
    /\ pc = "api"
    /\ lastCall' = Call("next_event_time", next_event_time(World))
    /\ UNCHANGED <<now, priority_queue, queue_length, in_service, service_rate,
                   time_history, queue_length_history, arrival_rate, run_until,
                   pc, error, inserted, executed, service_start, arrivals, draws,
                   push_after_pop>>

\* schedule.run_next_event()
RunNextEvent ==
    /\ pc = "api"
    /\ \E draw \in Draws(arrival_rate) :
          LET w == run_next_event(World, draw)
          IN /\ Store(w)
             /\ pc' = Failed(w)
    /\ lastCall' = Call("run_next_event", 0)
    /\ UNCHANGED run_until

\* queue.arrival(schedule)
Arrival ==
    /\ pc = "api"
    /\ Len(inserted) < MaxEvents
    /\ queue_length + in_service < MaxArrivals
    /\ LET w == arrival(World)
       IN /\ Store(w)
          /\ pc' = Failed(w)
    /\ lastCall' = Call("arrival", 0)
    /\ UNCHANGED run_until

\* queue.start_service(schedule)
StartService ==
    /\ pc = "api"
    /\ Len(inserted) < MaxEvents
    /\ LET w == start_service(World)
       IN /\ Store(w)
          /\ pc' = Failed(w)
    /\ lastCall' = Call("start_service", 0)
    /\ UNCHANGED run_until

NextSchedule ==
    \/ AddEventAt
    \/ AddEventAfter
    \/ NextEventTime
    \/ RunNextEvent
    \/ Arrival
    \/ StartService

SpecSchedule == InitSchedule /\ [][NextSchedule]_vars

\* --------------------------------------------------------- run_simulation
Init ==
    /\ now = 0
    /\ priority_queue = <<>>
    /\ queue_length = 0
    /\ in_service = 0
    /\ service_rate \in Rates
    /\ time_history = <<>>
    /\ queue_length_history = <<>>
    /\ arrival_rate \in Rates
    /\ run_until \in Horizons
    /\ pc = "start"
    /\ error = "none"
    /\ inserted = <<>>
    /\ executed = <<>>
    /\ service_start = 0
    /\ arrivals = 0
    /\ draws = <<>>
    /\ push_after_pop = FALSE
    /\ lastCall = Call("init", 0)

\* airport.schedule_initial_arrival(schedule)
ScheduleInitialArrival ==
    /\ pc = "start"
    /\ \E draw \in Draws(arrival_rate) :
          LET w == schedule_initial_arrival(World, draw)
          IN /\ Store(w)
             /\ pc' = IF w.error # "none" THEN "failed" ELSE "loop"
             /\ lastCall' = Call("schedule_initial_arrival", draw)
    /\ UNCHANGED run_until

\* one iteration of the while loop: schedule.run_next_event()
LoopRun ==
    /\ pc = "loop"
    /\ LoopCondition(World, run_until)
    /\ Len(executed) < MaxSteps
    /\ \E draw \in Draws(arrival_rate) :
          LET w == run_next_event(World, draw)
          IN /\ Store(w)
             /\ pc' = Failed(w)
    /\ lastCall' = Call("run_next_event", 0)
    /\ UNCHANGED run_until

\* the loop condition is false: the simulation is done
LoopExit ==
    /\ pc = "loop"
    /\ ~LoopCondition(World, run_until)
    /\ pc' = "done"
    /\ lastCall' = Call("exit", 0)
    /\ UNCHANGED <<now, priority_queue, queue_length, in_service, service_rate,
                   time_history, queue_length_history, arrival_rate, run_until,
                   error, inserted, executed, service_start, arrivals, draws,
                   push_after_pop>>

Next ==
    \/ ScheduleInitialArrival
    \/ LoopRun
    \/ LoopExit

Spec == Init /\ [][Next]_vars

\* ------------------------------ run_simulation with intervals bounded below
\* Inter-arrival draws of at least one tick.
PositiveDraws == 1..MaxDraw

\* More events than a run can execute when every interval is at least one
\* tick: at most one arrival and one end of service per tick up to run_until.
StepLimit == 2 * MaxHorizon + 2

InitTerminating ==
    /\ now = 0
    /\ priority_queue = <<>>
    /\ queue_length = 0
    /\ in_service = 0
    /\ service_rate \in {r \in 1..MaxRate : ServiceTime(r) >= 1}
    /\ time_history = <<>>
    /\ queue_length_history = <<>>
    /\ arrival_rate \in 1..MaxRate
    /\ run_until \in 0..MaxHorizon
    /\ pc = "start"
    /\ error = "none"
    /\ inserted = <<>>
    /\ executed = <<>>
    /\ service_start = 0
    /\ arrivals = 0
    /\ draws = <<>>
    /\ push_after_pop = FALSE
    /\ lastCall = Call("init", 0)

\* airport.schedule_initial_arrival(schedule), the draw at least one tick
StartTerminating ==
    /\ pc = "start"
    /\ \E draw \in PositiveDraws :
          \E w \in {schedule_initial_arrival(World, draw)} :
             /\ Store(w)
             /\ pc' = IF w.error # "none" THEN "failed" ELSE "loop"
             /\ lastCall' = Call("schedule_initial_arrival", draw)
    /\ UNCHANGED run_until

\* one iteration of the while loop, the draw at least one tick
RunTerminating ==
    /\ pc = "loop"
    /\ LoopCondition(World, run_until)
    /\ Len(executed) < StepLimit
    /\ \E draw \in PositiveDraws :
          \E w \in {run_next_event(World, draw)} :
             /\ Store(w)
             /\ pc' = Failed(w)
    /\ lastCall' = Call("run_next_event", 0)
    /\ UNCHANGED run_until

NextTerminating ==
    \/ StartTerminating
    \/ RunTerminating
    \/ LoopExit

\* ENABLED <<NextTerminating>>_vars as a state predicate: the driver has a
\* next step before the loop has exited.
CanStep ==
    \/ pc = "start"
    \/ pc = "loop" /\ (LoopCondition(World, run_until)
                          => Len(executed) < StepLimit)

\* WF_vars(NextTerminating) with its ENABLED written as CanStep: the driver
\* is a sequential program, it always takes its next step.
Fairness == []<>(~CanStep) \/ []<><<NextTerminating>>_vars

SpecTerminating == InitTerminating /\ [][NextTerminating]_vars /\ Fairness

\* ------------------------------------------------------------- properties
Range(seq) == {seq[i] : i \in DOMAIN seq}

Last(seq) == seq[Len(seq)]

NonDecreasing(seq) ==
    \A i \in 1..(Len(seq) - 1) : seq[i].timestamp <= seq[i + 1].timestamp

Pending(function) ==
    {i \in DOMAIN priority_queue : priority_queue[i].function = function}

\* The inputs the driver is specified for: both rates positive, horizon >= 0.
ValidConfig == arrival_rate > 0 /\ service_rate > 0 /\ run_until >= 0

\* C1: the clock after each run_next_event call is >= the clock before it,
\* for any sequence of add_event_at / add_event_after / run_next_event calls.
C1_MonotonicClock ==
    [][lastCall'.op = "run_next_event" => now' >= now]_vars

\* C2: add_event_at with a timestamp before the clock, and add_event_after
\* with a negative interval, fail with InvalidTime and insert no event.
C2_PastSchedulingRejected ==
    [][(\/ lastCall'.op = "add_event_at" /\ lastCall'.arg < now
        \/ lastCall'.op = "add_event_after" /\ lastCall'.arg < 0)
       => error' = "InvalidTime" /\ priority_queue' = priority_queue]_vars

\* C3: events pushed in any order, with no push after the first pop, are run
\* in non-decreasing timestamp order; every event is pending or was run
\* exactly once, so once the schedule is empty the run events are a
\* permutation of the pushed ones.
C3_GlobalOrdering ==
    ~push_after_pop =>
        /\ NonDecreasing(executed)
        /\ Range(executed) \cup Range(priority_queue) = Range(inserted)
        /\ Len(executed) + Len(priority_queue) = Len(inserted)
        /\ (priority_queue = <<>> =>
               /\ Len(executed) = Len(inserted)
               /\ Range(executed) = Range(inserted))

\* C3 witness: three events pushed out of timestamp order, one tie among
\* them, then all three run.
C3_Witness ==
    /\ ~push_after_pop
    /\ priority_queue = <<>>
    /\ Len(executed) = 3
    /\ inserted[1].timestamp > inserted[2].timestamp
    /\ inserted[1].timestamp = inserted[3].timestamp

\* C4: with arrival_rate <= 0, service_rate <= 0 or run_until < 0 the driver
\* fails with InvalidParameter; nothing is scheduled, run or recorded.
C4_InvalidParameterRejected ==
    ~ValidConfig =>
        /\ pc # "start" => error = "InvalidParameter"
        /\ inserted = <<>>
        /\ executed = <<>>
        /\ time_history = <<>>

NowIsLastExecuted ==
    now = IF executed = <<>> THEN 0 ELSE Last(executed).timestamp

\* C5: run_next_event changes nothing when no event is pending; otherwise it
\* removes exactly one event of minimum timestamp, sets now to that timestamp
\* and then runs the event's handler (which sees the new clock and may push
\* events). In every state now is the timestamp of the last event run, or 0.
C5_RunNextEvent ==
    [][/\ NowIsLastExecuted
       /\ NowIsLastExecuted'
       /\ lastCall'.op = "run_next_event" =>
            IF priority_queue = <<>>
            THEN UNCHANGED <<now, priority_queue, executed, inserted,
                             queue_length, in_service, time_history,
                             queue_length_history>>
            ELSE \E i \in DOMAIN priority_queue :
                    LET event == priority_queue[i]
                        pushed == Range(inserted') \ Range(inserted)
                    IN /\ \A j \in DOMAIN priority_queue :
                             event.timestamp <= priority_queue[j].timestamp
                       /\ executed' = Append(executed, event)
                       /\ now' = event.timestamp
                       /\ Range(priority_queue') =
                             (Range(priority_queue) \ {event}) \cup pushed
                       /\ Len(priority_queue') =
                             Len(priority_queue) - 1 + Cardinality(pushed)
                       /\ \A e \in pushed :
                             e.function = "end_service" =>
                                e.timestamp = event.timestamp
                                              + ServiceTime(service_rate)
                       /\ event.function = "end_service" =>
                             /\ Len(time_history') > Len(time_history)
                             /\ time_history'[Len(time_history) + 1]
                                   = event.timestamp
                       /\ event.function = "noop" =>
                             UNCHANGED <<queue_length, in_service,
                                         time_history, inserted>>]_vars

\* C5 witness: a run_next_event call that took the earliest of several
\* pending events, out of insertion order.
C5_Witness ==
    /\ lastCall.op = "run_next_event"
    /\ Len(executed) = 1
    /\ Len(priority_queue) = 2
    /\ executed[1].id = 2
    /\ now = executed[1].timestamp

\* C6: in a driver run in_service is 0 or 1, exactly in_service end_service
\* events are pending, and the pending one is due at the time the service
\* started plus the fixed service time 1/service_rate.
C6_SingleServer ==
    ValidConfig =>
        /\ in_service \in {0, 1}
        /\ Cardinality(Pending("end_service")) = in_service
        /\ \A i \in Pending("end_service") :
              priority_queue[i].timestamp
                 = service_start + ServiceTime(service_rate)

\* C6 witness: a second service started by the end of the first one, with
\* an arrival pending too.
C6_Witness ==
    /\ ValidConfig
    /\ in_service = 1
    /\ executed # <<>>
    /\ Last(executed).function = "end_service"
    /\ Cardinality(Pending("end_service")) = 1
    /\ service_start > 0

SingleArrivalRun ==
    /\ arrivals = 1
    /\ error = "none"
    /\ priority_queue = <<>>

\* C7: one arrival() at time t, then the schedule run until nothing is
\* pending: waiting = 0, in_service = 0 and the history is exactly one
\* sample (t, 1) followed by one sample (t + 1/service_rate, 0).
C7_SingleArrival_Original ==
    SingleArrivalRun =>
        /\ queue_length = 0
        /\ in_service = 0
        /\ time_history =
              <<service_start, service_start + ServiceTime(service_rate)>>
        /\ queue_length_history = <<1, 0>>

\* C7 as amended: one arrival() at time t, then the schedule run until
\* nothing is pending: waiting = 0, in_service = 0 and the history is two
\* samples (t, 1), the arrival's and the service start's, followed by one
\* sample (t + 1/service_rate, 0).
C7_SingleArrival ==
    SingleArrivalRun =>
        /\ queue_length = 0
        /\ in_service = 0
        /\ time_history =
              <<service_start, service_start,
                service_start + ServiceTime(service_rate)>>
        /\ queue_length_history = <<1, 1, 0>>

\* C7 witness: the clock was advanced to t > 0 by one event, arrival() was
\* called on the then empty schedule, and the end of service has run.
C7_Witness ==
    /\ SingleArrivalRun
    /\ Len(inserted) = 2
    /\ Len(executed) = 2
    /\ inserted[1].function = "noop"
    /\ inserted[1].timestamp > 0
    /\ service_start = inserted[1].timestamp
    /\ executed[2].function = "end_service"

\* C8: between events the server is never idle while a customer waits:
\* in_service = 0 implies waiting = 0.
C8_WorkConservation ==
    in_service = 0 => queue_length = 0

\* C8 witness: an end of service that found a customer waiting and started
\* the next service inline, leaving another one waiting.
C8_Witness ==
    /\ executed # <<>>
    /\ Last(executed).function = "end_service"
    /\ in_service = 1
    /\ queue_length = 1
    /\ error = "none"

\* C9: no event with timestamp > run_until is ever run; when the loop exits
\* every pending event has timestamp > run_until (so events due exactly at
\* run_until were run), and for run_until >= 0 the final clock is
\* <= run_until.
C9_HorizonRule ==
    /\ \A i \in DOMAIN executed : executed[i].timestamp <= run_until
    /\ pc = "done" =>
          /\ \A i \in DOMAIN priority_queue :
                priority_queue[i].timestamp > run_until
          /\ run_until >= 0 => now <= run_until

\* C9 witness: a finished run in which an event due exactly at run_until
\* was run.
C9_Witness ==
    /\ ValidConfig
    /\ pc = "done"
    /\ run_until > 0
    /\ executed # <<>>
    /\ Last(executed).timestamp = run_until
    /\ now = run_until

ZeroHorizonIdle ==
    /\ executed = <<>>
    /\ now = 0
    /\ time_history = <<>>
    /\ queue_length_history = <<>>

\* C10: with run_until = 0 and a positive arrival rate no event is run, the
\* clock stays 0 and the history stays empty, whatever the draw.
C10_ZeroHorizon_Original ==
    run_until = 0 /\ arrival_rate > 0 => ZeroHorizonIdle

\* C10 as amended: with run_until = 0 and a positive arrival rate no event
\* is run, the clock stays 0 and the history stays empty, for every
\* inter-arrival draw greater than 0 (a draw of exactly 0, which expovariate
\* can return, puts the first arrival at time 0 = run_until and it is run).
C10_ZeroHorizon ==
    (/\ run_until = 0
     /\ arrival_rate > 0
     /\ \A i \in DOMAIN draws : draws[i] > 0)
        => ZeroHorizonIdle

\* C10 witness: a finished run with horizon 0 whose first draw was positive.
C10_Witness ==
    /\ pc = "done"
    /\ run_until = 0
    /\ arrival_rate > 0
    /\ draws # <<>>
    /\ draws[1] > 0

IsPrefix(s, t) == Len(s) <= Len(t) /\ SubSeq(t, 1, Len(s)) = s

Added(s, t) == SubSeq(t, Len(s) + 1, Len(t))

Count(seq, function) ==
    Cardinality({i \in DOMAIN seq : seq[i].function = function})

\* C11: in a driver run the history only grows by appending, its times are
\* non-decreasing, every sample is taken at the current clock with occupancy
\* waiting + in_service of that moment, and one sample is appended per
\* transition: one per arrival, one per service start, one per service end.
C11_History ==
    [][ValidConfig =>
         /\ IsPrefix(time_history, time_history')
         /\ IsPrefix(queue_length_history, queue_length_history')
         /\ Len(time_history') = Len(queue_length_history')
         /\ \A i \in 1..(Len(time_history') - 1) :
               time_history'[i] <= time_history'[i + 1]
         /\ \A t \in Range(Added(time_history, time_history')) : t = now'
         /\ Len(time_history') = arrivals' + Count(inserted', "end_service")
                                   + Count(executed', "end_service")
         /\ Len(executed') > Len(executed) =>
               /\ Last(queue_length_history') = queue_length' + in_service'
               /\ Added(queue_length_history, queue_length_history') =
                     IF Last(executed').function = "handle_arrival"
                     THEN IF in_service = 0
                          THEN <<queue_length + 1, queue_length + 1>>
                          ELSE <<queue_length + 2>>
                     ELSE IF queue_length > 0
                          THEN <<queue_length, queue_length>>
                          ELSE <<0>>]_vars

\* C11 witness: a history of at least five samples whose last two were
\* appended by an end of service that started the next service inline.
C11_Witness ==
    /\ ValidConfig
    /\ Len(time_history) >= 5
    /\ Last(executed).function = "end_service"
    /\ in_service = 1
    /\ time_history[Len(time_history) - 1] = now
    /\ time_history[1] < now

\* C12: among pending events of equal timestamp run_next_event runs the one
\* inserted first: the event it runs has the smallest creation number of
\* all events that were pending with its timestamp.
C12_TieBreakByInsertion ==
    [][lastCall'.op = "run_next_event" /\ Len(executed') > Len(executed) =>
         \A k \in DOMAIN priority_queue :
            priority_queue[k].timestamp = Last(executed').timestamp =>
               priority_queue[k].id >= Last(executed').id]_vars

\* C14: run_next_event is the only operation that changes now or removes a
\* pending event; next_event_time changes neither; add_event_at and
\* add_event_after leave now and the pending events as they are and add
\* exactly one event, with the requested timestamp; a pending event stays
\* pending, timestamp unchanged, until run_next_event runs it.
C14_ScheduleFrame ==
    [][/\ now' # now => lastCall'.op = "run_next_event"
       /\ Range(priority_queue) \ Range(priority_queue') # {} =>
             lastCall'.op = "run_next_event"
       /\ Range(priority_queue) \ Range(priority_queue')
             \subseteq Range(executed') \ Range(executed)
       /\ Len(executed') <= Len(executed) + 1
       /\ lastCall'.op = "next_event_time" =>
             /\ UNCHANGED <<now, priority_queue, inserted, executed>>
             /\ lastCall'.arg = IF priority_queue = <<>> THEN inf
                                ELSE priority_queue[1].timestamp
             /\ \A i \in DOMAIN priority_queue :
                   lastCall'.arg <= priority_queue[i].timestamp
       /\ lastCall'.op \in {"add_event_at", "add_event_after"} =>
             /\ now' = now
             /\ executed' = executed
             /\ Len(inserted') = Len(inserted) + 1
             /\ Len(priority_queue') = Len(priority_queue) + 1
             /\ Range(priority_queue') =
                   Range(priority_queue) \cup {Last(inserted')}
             /\ Last(inserted') \notin Range(priority_queue)
             /\ Last(inserted').timestamp =
                   IF lastCall'.op = "add_event_at" THEN lastCall'.arg
                   ELSE now + lastCall'.arg]_vars

\* C14 witness: after one event had run and advanced the clock, an event was
\* added next to an older pending one, which is still pending.
C14_Witness ==
    /\ lastCall.op \in {"add_event_at", "add_event_after"}
    /\ Len(priority_queue) = 2
    /\ now > 0
    /\ Len(executed) = 1
    /\ inserted[1] \in Range(priority_queue)
    /\ inserted[3] \in Range(priority_queue)

\* C15: in a driver run with positive arrival and service rates every
\* scheduling call made by a handler uses a timestamp >= the current clock,
\* so every pending event has timestamp >= now.
C15_Causality ==
    [][arrival_rate > 0 /\ service_rate > 0 =>
         /\ \A e \in Range(inserted') \ Range(inserted) : e.timestamp >= now'
         /\ \A i \in DOMAIN priority_queue' :
               priority_queue'[i].timestamp >= now']_vars

\* C15 witness: after the clock advanced, an arrival handler started a
\* service and scheduled the next arrival; both events are pending.
C15_Witness ==
    /\ arrival_rate > 0
    /\ service_rate > 0
    /\ now > 0
    /\ lastCall.op = "run_next_event"
    /\ Last(executed).function = "handle_arrival"
    /\ Cardinality(Pending("end_service")) = 1
    /\ Cardinality(Pending("handle_arrival")) = 1
    /\ Len(executed) >= 3

StartedServices ==
    Count(inserted', "end_service") - Count(inserted, "end_service")

\* C16: in a driver run waiting >= 0; an arrival raises waiting by exactly 1
\* (seen in the sample it records), an end of service leaves waiting as it
\* is (seen in the sample it records), and waiting goes down only by 1, in
\* a step that starts a service and leaves in_service = 1.
C16_Waiting ==
    [][/\ queue_length >= 0
       /\ queue_length' >= 0
       /\ queue_length' # queue_length => Len(executed') = Len(executed) + 1
       /\ queue_length' < queue_length =>
             /\ queue_length' = queue_length - 1
             /\ in_service' = 1
             /\ service_start' = now'
             /\ error' = "none" => StartedServices = 1
       /\ Len(executed') = Len(executed) + 1 =>
             LET first == queue_length_history'[Len(queue_length_history) + 1]
             IN IF Last(executed').function = "handle_arrival"
                THEN /\ arrivals' = arrivals + 1
                     /\ first = (queue_length + 1) + in_service
                     /\ in_service' = 1
                     /\ queue_length' = IF in_service = 0
                                        THEN (queue_length + 1) - 1
                                        ELSE queue_length + 1
                     /\ error' = "none" =>
                           StartedServices = IF in_service = 0 THEN 1 ELSE 0
                ELSE /\ arrivals' = arrivals
                     /\ first = queue_length + 0
                     /\ in_service' = IF queue_length > 0 THEN 1 ELSE 0
                     /\ queue_length' = IF queue_length > 0
                                        THEN queue_length - 1
                                        ELSE queue_length
                     /\ error' = "none" =>
                           StartedServices = IF queue_length > 0 THEN 1 ELSE 0
      ]_vars

\* C16 witness: two customers were waiting behind the one in service, and
\* the end of that service took one of them into service.
C16_Witness ==
    /\ arrivals = 3
    /\ Last(executed).function = "end_service"
    /\ queue_length = 1
    /\ in_service = 1
    /\ Count(executed, "end_service") = 1

\* C17: once the first arrival is scheduled, between event executions of a
\* driver run exactly one handle_arrival event is pending, so the schedule is
\* never empty; every handle_arrival run made one arrival() call and
\* scheduled one next handle_arrival with one fresh draw.
C17_SelfPerpetuatingArrivals ==
    pc \in {"loop", "done"} =>
        /\ Cardinality(Pending("handle_arrival")) = 1
        /\ priority_queue # <<>>
        /\ arrivals = Count(executed, "handle_arrival")
        /\ Count(inserted, "handle_arrival")
              = Count(executed, "handle_arrival") + 1
        /\ Len(draws) = arrivals + 1

\* C17 witness: two arrivals have run and been served, the server is idle
\* again, and the only pending event is the next arrival.
C17_Witness ==
    /\ ValidConfig
    /\ pc = "loop"
    /\ Count(executed, "handle_arrival") = 2
    /\ in_service = 0
    /\ Len(priority_queue) = 1
    /\ priority_queue[1].function = "handle_arrival"

\* C18: in every state of a driver run the number of arrival() calls equals
\* waiting + in_service + the number of end_service events run.
C18_CustomerConservation ==
    arrivals = queue_length + in_service + Count(executed, "end_service")

\* C18 witness: of three customers arrived, one has left, one is in service
\* and one is waiting.
C18_Witness ==
    /\ arrivals = 3
    /\ Count(executed, "end_service") = 1
    /\ in_service = 1
    /\ queue_length = 1
    /\ pc = "done"
    /\ ValidConfig

\* C19: with every inter-arrival interval and the service time at least one
\* tick, the run loop of every driver run with run_until >= 0 exits.
C19_Terminates == <>(pc = "done")

\* C19 witness: a run to the largest horizon that executed arrivals and
\* ends of service and then left the loop with the next arrival pending
\* beyond run_until.
C19_Witness ==
    /\ pc = "done"
    /\ run_until = MaxHorizon
    /\ Count(executed, "handle_arrival") >= 2
    /\ Count(executed, "end_service") >= 1
    /\ Cardinality(Pending("handle_arrival")) = 1
    /\ next_event_time(World) > run_until

\* C20: start_service called with waiting = 0 or in_service = 1 changes
\* nothing: waiting, in_service, both history lists and the pending events
\* stay as they are and no end_service event is scheduled.
C20_StartServiceNoOp ==
    [][lastCall'.op = "start_service"
          /\ (queue_length = 0 \/ in_service = 1) =>
         /\ UNCHANGED <<queue_length, in_service, time_history,
                        queue_length_history, priority_queue, inserted,
                        now, error, service_start>>
         /\ Count(inserted', "end_service") = Count(inserted, "end_service")
      ]_vars

\* C20 witness: start_service was called while a customer was waiting behind
\* the one in service.
C20_Witness ==
    /\ lastCall.op = "start_service"
    /\ queue_length = 1
    /\ in_service = 1
    /\ Cardinality(Pending("end_service")) = 1

====
